---------------------------- MODULE Spec2Model ----------------------------
(***************************************************************************)
(* The session capture-and-recovery engine of LiveMonitor                  *)
(* (src/components/ui/Header.tsx, lines 156-909) together with the durable *)
(* store it writes to (src/services/db.ts).                                *)
(*                                                                         *)
(* React state is a set of variables; a handler reads the values of the    *)
(* render it was created in.  Handlers bound to buttons are re-created on  *)
(* every render and therefore read the current values.  Two closures       *)
(* outlive their render and are modelled explicitly:                       *)
(*   - the screen track's onended handler, which calls the stopMonitoring  *)
(*     of the render in which startMonitoring was invoked (endCap);        *)
(*   - the recorder's onstop handler, which reads the values of the        *)
(*     stopMonitoring call that installed it (fin).                        *)
(* Every await of the source is a separate step.  Time advances in whole   *)
(* seconds (the period of the elapsed-time ticker).                        *)
(***************************************************************************)
EXTENDS Integers, Sequences, FiniteSets, TLC

(* ------------------------------ bounds -------------------------------- *)
MaxSessions == 1
MaxTicks == 2
MaxLogs == 1
MaxChunks == 1
MaxLoads == 1
MaxInflight == 1
MaxStarts == 2
LongTicks == 12
MaxToggles == 2
MaxPolls == 3
SamplerTicks == 1
MaxSaves == 2
TwoSessions == 2
MaxPending == 3
TwoLogs == 2
TwoStarts == 2
MaxAppends == 4

(* ------------------------- program constants -------------------------- *)
TickMs == 1000
CheckpointMs == 10000
RetentionMs == 259200000
IdleThresholdMs == 300000
IdlePollMs == 5000
ActivePeriodMs == 15000
IdlePeriodMs == 60000

CheckpointTicks == CheckpointMs \div TickMs

(* activeSessionId values: crypto.randomUUID() yields a value never seen   *)
(* before; the k-th id minted is k.                                        *)
Ids == 1..(1 + MaxSessions + MaxLoads)
NextId(k) == k + 1
StreamNames == {"recording", "screen", "camera", "processed"}
StartFailures == {"capture", "ctor", "start"}

VARIABLES
  minted, sessions,
  status, elapsedTime, logs, activeSessionId, showRecovery, recoveryMeta,
  timerRef, analysisIntervalRef, loopsRef, segmentationRef, mediaRecorderRef,
  chunksRef, streams, screenTrack, endCap,
  startPc, fin, inflight,
  meta, recChunks, dbLogs, dbVideos,
  now, ckptTimer,
  recGen, ticks, loads, completed, stops, recTicks, sinceCkpt,
  wroteUnder, finTrace,
  isCameraEnabled, isIdle, period, bgMode,
  sample, fault, toggles, polls, kv, saves,
  analysisIn, analysisOut, dbIn, dbOut, resumed, stopTrace, samplers, segm, comp,
  starts

react == <<status, elapsedTime, logs, activeSessionId, showRecovery, recoveryMeta>>
refs == <<timerRef, analysisIntervalRef, loopsRef, segmentationRef,
          mediaRecorderRef, chunksRef, streams, screenTrack, endCap>>
tasks == <<startPc, fin, inflight>>
store == <<meta, recChunks, dbLogs, dbVideos>>
clock == <<now, ckptTimer>>
ids == <<minted, sessions>>
ghost == <<ids, recGen, ticks, loads, completed, stops, recTicks,
           sinceCkpt, wroteUnder, finTrace>>
aux == <<isCameraEnabled, isIdle, period, bgMode>>
alone == <<analysisIn, analysisOut, kv, saves, dbIn, dbOut, segm, starts>>
apart == <<alone, comp>>
extra == <<aux, sample, toggles, polls, apart, resumed, stopTrace,
           samplers>>
vars == <<react, refs, tasks, store, clock, ghost, extra, fault>>

(* ------------------------------ values -------------------------------- *)
NoMeta == [present |-> FALSE, elapsedTime |-> 0, logs |-> <<>>, timestamp |-> 0,
           under |-> {}, recTicks |-> 0]
NoCap == [id |-> 0, time |-> 0, logs |-> <<>>]
NoStart == [pc |-> "none", cap |-> NoCap, rec |-> 0]
NoFin == [pc |-> "none", id |-> 0, time |-> 0, logs |-> <<>>, blob |-> <<>>,
          finalChunks |-> <<>>,
          rec |-> 0, via |-> "none", curId |-> 0, curTime |-> 0, curLogs |-> <<>>,
          recTicks |-> 0, under |-> {}, atStop |-> <<>>, overtaken |-> FALSE]
NoPayload == [id |-> 0, duration |-> 0, logs |-> <<>>, video |-> <<>>, via |-> "none",
              finalChunks |-> <<>>,
              curId |-> 0, curTime |-> 0, curLogs |-> <<>>, recTicks |-> 0,
              under |-> {}, rec |-> 0]
NoTrack == [kind |-> "none", handler |-> FALSE]
NoStreams == [s \in StreamNames |-> "off"]
BgModes == {"image", "blur", "none"}
(* resumed follows a recovered session: what handleResumeSession restored   *)
(* and how far the user went since: "paused" after handleResumeSession,     *)
(* "resumed" after the resumeMonitoring that follows, "stopped" after the   *)
(* stopMonitoring that follows; any other operation ends the following.     *)
(* It also follows a startMonitoring that resumeMonitoring fell back to:    *)
(* rec is the recorder that start makes and kept the chunk buffer it found. *)
NoResumed == [phase |-> "none", time |-> 0, logs |-> <<>>, chunks |-> <<>>,
              recTicks |-> 0, rec |-> 0, kept |-> <<>>]
(* The segmentation model of one set-up: ref is segmentationRef (with       *)
(* isSegmentationReadyRef), loop the segInterval, open the instance until   *)
(* close(); sends holds, for every segmentation.send that is pending, the   *)
(* ms it still takes; closeIn the ms left of the close timeout (-1: none);  *)
(* closedWith the number of sends that were pending when close() ran.       *)
NoSegmentation == [made |-> FALSE, ref |-> FALSE, loop |-> FALSE, open |-> FALSE,
                   sends |-> <<>>, closeIn |-> -1, closedWith |-> 0]
(* The compositor: pending is the isCameraEnabled of the render whose       *)
(* startMonitoring is running, cams the flags that the drawCompositor       *)
(* closures of the scheduled compositor intervals hold, frame the frame     *)
(* drawn last: whether the camera inset is in it, whether the camera video  *)
(* was ready, and the isCameraEnabled of the state at that tick.            *)
NoFrame == [drawn |-> FALSE, inset |-> FALSE, ready |-> FALSE, cam |-> FALSE]
NoCompositor == [pending |-> FALSE, cams |-> {}, frame |-> NoFrame]
(* Calls of startMonitoring that overlap, taken alone: the status, the ids  *)
(* minted and the one set last, where each call stands, the calls whose     *)
(* streams are live, the recorders recording, which recorder                *)
(* mediaRecorderRef holds, and the chunk buffer as the sequence of the      *)
(* recorders that pushed onto it.                                           *)
NoStarts ==
  [status |-> "IDLE", minted |-> 0, activeSessionId |-> 0,
   pc |-> [i \in 1..TwoStarts |-> "none"], streams |-> {}, recording |-> {},
   mediaRecorderRef |-> 0, chunksRef |-> <<>>]
EmptyStores == [ls |-> <<>>, chunks |-> <<>>, logs |-> <<>>, videos |-> <<>>]


(* ---------------------- classification service ------------------------ *)

(* AnalysisResult (src/types.ts): the values a well-formed reply can carry. *)
Categories == {"Work", "Meeting", "Other"}
RiskLevels == {"low", "medium", "high"}
Results == [summary : {"reply"}, category : Categories, riskLevel : RiskLevels]

(* Replies that parse to an object which is not an AnalysisResult: a field  *)
(* is absent (reading it gives undefined) or riskLevel has a value outside  *)
(* the three levels.                                                        *)
Malformed ==
  {[summary |-> "undefined", category |-> "Work", riskLevel |-> "low"],
   [summary |-> "reply", category |-> "undefined", riskLevel |-> "low"],
   [summary |-> "reply", category |-> "Work", riskLevel |-> "undefined"],
   [summary |-> "reply", category |-> "Work", riskLevel |-> "critical"]}

(* JSON.parse("null"): a reply that parses, but not to an object. *)
ParsedNull == [summary |-> "null", category |-> "null", riskLevel |-> "null"]

(* The fall-back of the catch block.  The two builds of the service differ  *)
(* in its category only.                                                    *)
FallbackSummary == "AI analysis temporarily unavailable."
FallbackCategories == {"Work", "Monitoring"}
Fallback(build) ==
  [summary |-> FallbackSummary, category |-> build, riskLevel |-> "low"]

(* What a call meets: the build, whether process.env.API_KEY is set, how    *)
(* generateContent settles, and response.text ("empty": undefined or "",    *)
(* "garbage": not JSON, "null": the JSON text null, "json": an object, an   *)
(* AnalysisResult or not).                                                  *)
Texts ==
  {[kind |-> k, value |-> ParsedNull] : k \in {"empty", "garbage", "null"}}
    \cup {[kind |-> "json", value |-> r] : r \in Results \cup Malformed}
Calls == [build : FallbackCategories, apiKey : BOOLEAN,
          remote : {"ok", "error"}, text : Texts]
GoodCall(build, r) ==
  [build |-> build, apiKey |-> TRUE, remote |-> "ok",
   text |-> [kind |-> "json", value |-> r]]
NoCall == GoodCall("Work", [summary |-> "reply", category |-> "Work", riskLevel |-> "low"])
NoResult == [settled |-> "pending", value |-> ParsedNull]

(* The try block of analyzeSessionContext: it throws when getClient throws, *)
(* when generateContent rejects, when response.text is falsy and when       *)
(* JSON.parse throws; otherwise it returns what JSON.parse returned.        *)
TryAnalyze(c) ==
  IF ~c.apiKey THEN [threw |-> TRUE, value |-> ParsedNull]
  ELSE IF c.remote # "ok" THEN [threw |-> TRUE, value |-> ParsedNull]
  ELSE IF c.text.kind = "empty" THEN [threw |-> TRUE, value |-> ParsedNull]
  ELSE IF c.text.kind = "garbage" THEN [threw |-> TRUE, value |-> ParsedNull]
  ELSE [threw |-> FALSE, value |-> c.text.value]

(* An analyzeSessionContext whose catch block rethrows. *)
analyzeSessionContextRethrows(c) ==
  IF TryAnalyze(c).threw
  THEN [settled |-> "rejected", value |-> ParsedNull]
  ELSE [settled |-> "resolved", value |-> TryAnalyze(c).value]

(* analyzeSessionContext: how the promise it returns settles. *)
analyzeSessionContext(c) ==
  IF TryAnalyze(c).threw
  THEN [settled |-> "resolved", value |-> Fallback(c.build)]
  ELSE [settled |-> "resolved", value |-> TryAnalyze(c).value]

(* --------------------------- durable store ---------------------------- *)

(* The operations of src/services/db.ts.  All but clearRecoveryChunks have  *)
(* one shape:                                                               *)
(*   try { const db = await initDB(); return new Promise(...tx/req...) }    *)
(*   catch (e) { ...; return <nothing, undefined or []> }                   *)
DbWrites == {"saveVideoToDB", "saveLogsToDB", "saveRecoveryChunks"}
DbReads == {"getVideoFromDB", "getLogsFromDB", "loadRecoveryChunks"}
DbOps == DbWrites \cup DbReads \cup {"clearRecoveryChunks"}

(* What a call meets: nothing, indexedDB.open failing (request.onerror of   *)
(* initDB), or the transaction or request failing (tx.onerror, req.onerror).*)
DbFailures == {"none", "open", "tx"}

(* What the store holds under the key the call reads; <<>> when nothing.    *)
DbStored == {<<>>, <<1>>, <<1, 2>>}
DbCalls == [op : DbOps, fail : DbFailures, stored : DbStored]
NoDbCall == [op |-> "clearRecoveryChunks", fail |-> "none", stored |-> <<>>]
NoDbResult == [settled |-> "pending", value |-> <<>>]

(* clearRecoveryChunks creates its transaction and returns without a        *)
(* promise for it; every other operation returns the promise of its         *)
(* transaction or request from inside the try block, without awaiting it.   *)
ReturnsTxPromise(op) == op # "clearRecoveryChunks"

(* A store whose reads resolve with nothing. *)
DbSettleLosesValue(c) ==
  IF c.fail = "tx" /\ ReturnsTxPromise(c.op)
  THEN [settled |-> "rejected", value |-> <<>>]
  ELSE [settled |-> "resolved", value |-> <<>>]

(* How the promise of an operation settles, and with what.  undefined and   *)
(* [] are both written <<>>.                                                *)
DbSettle(c) ==
  IF c.fail = "open"
  THEN [settled |-> "resolved", value |-> <<>>]
  ELSE IF c.fail = "tx"
  THEN IF ReturnsTxPromise(c.op)
       THEN [settled |-> "rejected", value |-> <<>>]
       ELSE [settled |-> "resolved", value |-> <<>>]
  ELSE [settled |-> "resolved",
        value |-> IF c.op \in DbReads THEN c.stored ELSE <<>>]

(* ----------------------------- sampler -------------------------------- *)

(* A startAnalysisLoop that does not clear the interval it replaces. *)
startAnalysisLoopNoClear(n, ref) == n + 1

(* startAnalysisLoop (563-569), on the number n of sampler intervals that   *)
(* are scheduled: the interval analysisIntervalRef holds is cleared and a   *)
(* new one is set.                                                          *)
startAnalysisLoop(n, ref) == (IF ref THEN n - 1 ELSE n) + 1

(* if (analysisIntervalRef.current) clearInterval(...), in pauseMonitoring  *)
(* and stopMonitoring.                                                      *)
ClearSampler(n, ref) == IF ref THEN n - 1 ELSE n

(* A sampler that keeps the active period whatever the idle flag. *)
SamplerPeriodFixed(idle) == ActivePeriodMs

(* const frequency = isIdle ? 60000 : 15000 *)
SamplerPeriod(idle) == IF idle THEN IdlePeriodMs ELSE ActivePeriodMs

(* An idle test that counts the threshold itself as idle. *)
CurrentlyIdleInclusive(since) == since >= IdleThresholdMs

(* const currentlyIdle = timeSinceLastActivity > IDLE_THRESHOLD *)
CurrentlyIdle(since) == since > IdleThresholdMs

(* Date.now() - lastActivityRef.current as an idle poll can find it. *)
QuietTimes == {0, IdleThresholdMs, IdleThresholdMs + IdlePollMs}

(* A SessionLog (src/types.ts 1-11), reduced to the fields the engine reads. *)
(* tickCam is not a field of the log: it remembers the camera flag at the   *)
(* moment the sampler tick captured its frame.                              *)
AnalysisLog(t, cam, tickCam, result) ==
  [id |-> t, timestamp |-> t,
   type |-> IF result.category = "Meeting" THEN "meeting" ELSE "activity",
   category |-> result.category, isCameraOn |-> cam,
   confidence |-> result.riskLevel, thumbnail |-> TRUE, tickCam |-> tickCam]

(* The log of an idle transition (checkIdleInterval); it has no thumbnail. *)
IdleLog(t, cam, idle) ==
  [id |-> t, timestamp |-> t, type |-> "activity",
   category |-> IF idle THEN "Idle" ELSE "Work", isCameraOn |-> cam,
   confidence |-> "low", thumbnail |-> FALSE, tickCam |-> cam]

(* A setLogs updater that puts the new log after the ones it finds. *)
setLogsAppends(newLog, prev) == Append(prev, newLog)

(* setLogs(prev => [newLog, ...prev]) *)
setLogs(newLog, prev) == <<newLog>> \o prev

(* const { thumbnail, ...rest } = l  (saveSessionToStorage) *)
StripThumbnails(ls) == [i \in 1..Len(ls) |-> [ls[i] EXCEPT !.thumbnail = FALSE]]

(* A startMonitoring that mints an id whatever the status. *)
MintsIdAlways(st) == st \in {"IDLE", "PAUSED", "RECORDING"}

(* if (status === MonitoringState.IDLE) { chunksRef.current = []; setActiveSessionId(...) } *)
MintsId(st) == st = "IDLE"

(* A retention test that still accepts a snapshot exactly as old as the window. *)
WithinRetentionInclusive(m, t) == t - m.timestamp <= RetentionMs

(* if (Date.now() - parsed.timestamp < 259200000) *)
WithinRetention(m, t) == t - m.timestamp < RetentionMs

(* An onstop handler that skips the video save of a single-chunk buffer. *)
SavesVideoFromTwo(chunks) == Len(chunks) > 1

(* if (finalChunks.length > 0) { ... await saveVideoToDB(activeSessionId, blob) } *)
SavesVideo(chunks) == Len(chunks) > 0

(* mediaRecorderRef.current && mediaRecorderRef.current.state !== 'inactive' *)
RecorderActive(r) == r.state \in {"recording", "paused"}

(* streamRef.current && streamRef.current.active *)
StreamActive(st) == st["recording"] = "live"

(* track.stop() on every track of the four stream refs *)
StopTracks(st) == [s \in StreamNames |-> IF st[s] = "live" THEN "off" ELSE st[s]]

(* The downtimes a reload can follow: one second short of the retention    *)
(* window, exactly the window, and four days.                               *)
Gaps == {RetentionMs - TickMs, RetentionMs, RetentionMs + 86400000}

(* ------------------------- segmentation model ------------------------- *)

SegCloseDelayMs == 200
SendMs == {50, 200, 350}

(* The time to the next event of the segmentation model: the completion of *)
(* a pending send or the close timeout.                                     *)
SegTimers(g) ==
  {g.sends[i] : i \in 1..Len(g.sends)} \cup
    (IF g.closeIn >= 0 THEN {g.closeIn} ELSE {})
SegNextEvent(g) == CHOOSE m \in SegTimers(g) : \A x \in SegTimers(g) : m <= x

(* The pending sends after dt ms: those that took no longer have completed. *)
SendsAfter(sends, dt) ==
  [i \in 1..Len(SelectSeq(sends, LAMBDA d : d > dt)) |->
     SelectSeq(sends, LAMBDA d : d > dt)[i] - dt]

(* stopLoops (522-536) on the segmentation model: the intervals of loopsRef *)
(* are cleared, the ready flag is lowered, and when segmentationRef holds   *)
(* an instance the ref is nulled and seg.close() is set to run after        *)
(* SegCloseDelayMs, whatever sends are pending.                             *)
stopLoops(g) ==
  [g EXCEPT !.loop = FALSE, !.ref = FALSE,
            !.closeIn = IF g.ref THEN SegCloseDelayMs ELSE @]

(* ------------------------------- Init --------------------------------- *)
InitEngine ==
  /\ status = "IDLE" /\ elapsedTime = 0 /\ logs = <<>>
  /\ activeSessionId = 1 /\ showRecovery = FALSE /\ recoveryMeta = NoMeta
  /\ timerRef = FALSE /\ analysisIntervalRef = FALSE /\ loopsRef = 0
  /\ segmentationRef = FALSE
  /\ mediaRecorderRef = [state |-> "none", id |-> 0]
  /\ chunksRef = <<>> /\ streams = NoStreams /\ screenTrack = NoTrack
  /\ endCap = NoCap
  /\ startPc = NoStart /\ fin = NoFin /\ inflight = 0
  /\ meta = NoMeta /\ recChunks = <<>>
  /\ dbLogs = [i \in Ids |-> <<>>] /\ dbVideos = [i \in Ids |-> <<>>]
  /\ now = 0 /\ ckptTimer = 0
  /\ minted = 1 /\ sessions = 0 /\ recGen = 0 /\ ticks = 0 /\ loads = 0 /\ completed = [n |-> 0, last |-> NoPayload, passed |-> <<>>]
  /\ stops = 0 /\ recTicks = 0 /\ sinceCkpt = 0 /\ wroteUnder = {} /\ finTrace = <<>>
  /\ isCameraEnabled = TRUE /\ isIdle = FALSE /\ period = 0 /\ bgMode = "image"
  /\ sample = <<>> /\ fault = "none" /\ toggles = 0
  /\ polls = [n |-> 0, since |-> 0]
  /\ analysisOut = NoResult
  /\ dbOut = NoDbResult
  /\ resumed = NoResumed
  /\ stopTrace = <<>>
  /\ samplers = 0
  /\ segm = NoSegmentation
  /\ comp = NoCompositor
  /\ starts = NoStarts
  /\ kv = EmptyStores
  /\ saves = <<>>

Init == InitEngine /\ analysisIn = NoCall /\ dbIn = NoDbCall

(* The engine at rest, with a classification call about to be made under   *)
(* any of the conditions a call can meet.                                   *)
InitAnalyze == InitEngine /\ analysisIn \in Calls /\ dbIn = NoDbCall

(* The engine at rest, with one operation of the durable store about to be  *)
(* called, under any of the conditions it can meet.                         *)
InitDb == InitEngine /\ analysisIn = NoCall /\ dbIn \in DbCalls

(* fault names what failed in the step that led to the current state,     *)
(* "none" when nothing did.                                               *)
Fault(kind) == fault' = kind
NoFault == fault' = "none"

(* The checkpoint effect (deps [status, elapsedTime, logs]) clears and      *)
(* re-creates its 10 s interval on every render that changes a dependency.  *)
(* `saved` tells whether the step wrote a write-ahead checkpoint.           *)
Effects(saved) ==
  /\ ckptTimer' = IF status' = "IDLE"
                     \/ <<status', elapsedTime', logs'>> # <<status, elapsedTime, logs>>
                  THEN 0 ELSE ckptTimer
  /\ sinceCkpt' = IF saved \/ status' # "RECORDING" \/ status # "RECORDING"
                  THEN 0 ELSE sinceCkpt

(* saveSessionToStorage(time, currentLogs, chunks).  w is how the writes    *)
(* go: "ok"; "setItem" (localStorage.setItem throws, nothing after it       *)
(* runs); "idb" (the snapshot is written, the two IndexedDB writes fail).   *)
WriteFailures == {"setItem", "idb"}
saveSessionToStorage(time, currentLogs, chunks, w) ==
  /\ wroteUnder' = IF w = "ok" /\ Len(currentLogs) > 0
                   THEN wroteUnder \cup {activeSessionId} ELSE wroteUnder
  /\ meta' = IF w = "setItem" THEN meta
             ELSE [present |-> TRUE, elapsedTime |-> time,
                   logs |-> StripThumbnails(currentLogs), timestamp |-> now,
                   under |-> wroteUnder', recTicks |-> recTicks]
  /\ recChunks' = IF w = "ok" /\ Len(chunks) > 0 THEN chunks ELSE recChunks
  /\ dbLogs' = IF w = "ok" /\ Len(currentLogs) > 0
               THEN [dbLogs EXCEPT ![activeSessionId] = currentLogs] ELSE dbLogs
  /\ IF w = "ok" THEN NoFault ELSE Fault("checkpoint")


(* ------------------------- session lifecycle -------------------------- *)

SegFailures == {"init", "late"}

(* A set-up whose failure is not caught ends startMonitoring. *)
AfterSegmentationUncaught(seg) ==
  IF seg \in SegFailures THEN "none" ELSE "getDisplayMedia"

(* try { ...segmentation set-up... } catch (e) { console.error(...) }: the   *)
(* await startMonitoring reaches after step 2, whatever the set-up did.     *)
AfterSegmentation(seg) == "getDisplayMedia"

(* resumeMonitoring was called: the first one after handleResumeSession is  *)
(* the resume that the recovery is followed through.                        *)
AfterResumeCall(r) == [r EXCEPT !.phase = IF @ = "paused" THEN "resumed" ELSE @]

(* resumeMonitoring fell back to startMonitoring, which will make recorder  *)
(* rec and found chunks in the buffer.                                      *)
AfterFallback(r, rec, chunks) ==
  [AfterResumeCall(r) EXCEPT !.rec = rec, !.kept = chunks]

(* pauseMonitoring was called. *)
AfterPauseCall(r) == [NoResumed EXCEPT !.rec = r.rec, !.kept = r.kept]

(* stopMonitoring was called, by the End button or by the onended handler,  *)
(* with the recorder active or not.                                         *)
AfterStopCall(r, via, active) ==
  [(IF r.phase = "resumed" /\ via = "user" THEN [r EXCEPT !.phase = "stopped"]
    ELSE NoResumed)
   EXCEPT !.rec = IF active THEN r.rec ELSE 0,
          !.kept = IF active THEN r.kept ELSE <<>>]

(* startMonitoring, from its entry to the first await (getUserMedia).  cap  *)
(* holds what the stopMonitoring of this render reads: the onended handler  *)
(* installed at the end of this call invokes that stopMonitoring.           *)
startMonitoring ==
  /\ recGen < MaxStarts
  /\ IF MintsId(status)
     THEN /\ chunksRef' = <<>>
          /\ activeSessionId' = NextId(minted)
          /\ minted' = minted + 1
          /\ sessions' = sessions + 1
          /\ wroteUnder' = {}
          /\ recTicks' = 0
          /\ completed' = [completed EXCEPT !.last = NoPayload]
     ELSE UNCHANGED <<chunksRef, activeSessionId, minted, sessions, wroteUnder,
                     recTicks, completed>>
  /\ recGen' = recGen + 1
  /\ startPc' = [pc |-> "getUserMedia", rec |-> recGen + 1,
                 cap |-> [id |-> activeSessionId, time |-> elapsedTime, logs |-> logs]]
  /\ UNCHANGED <<status, elapsedTime, logs, showRecovery, recoveryMeta,
                 timerRef, analysisIntervalRef, loopsRef, segmentationRef,
                 mediaRecorderRef, streams, screenTrack, endCap, fin, inflight,
                 store, now, ticks, loads, stops, finTrace>>
  /\ Effects(FALSE)
  /\ isIdle' = FALSE
  /\ NoFault
  /\ resumed' = IF MintsId(status) THEN NoResumed
                ELSE AfterFallback(resumed, recGen + 1, chunksRef)
  /\ comp' = [comp EXCEPT !.pending = isCameraEnabled]
  /\ stopTrace' = <<>>
  /\ UNCHANGED <<isCameraEnabled, period, bgMode, sample, toggles,
                 polls, alone, samplers>>

(* The Start button, rendered while status is IDLE; the recovery modal      *)
(* covers the controls while it is shown.  The engine follows one call of   *)
(* startMonitoring at a time; calls that overlap are followed apart         *)
(* (StartPressed).                                                          *)
StartClick(maxSessions) ==
  /\ status = "IDLE" /\ ~showRecovery /\ startPc.pc = "none"
  /\ sessions < maxSessions
  /\ startMonitoring

(* getUserMedia settles; on success steps 2 and 3 of startMonitoring run up *)
(* to the await of getDisplayMedia.  seg is the outcome of the best-effort  *)
(* segmentation set-up: "ok", "none" (window.SelfieSegmentation is absent), *)
(* "init" (the constructor throws) or "late" (dummyVideo.play() rejects,    *)
(* after segmentationRef was assigned).                                     *)
UserMediaResult(segs) ==
  /\ startPc.pc = "getUserMedia"
  /\ \E ok \in BOOLEAN, seg \in segs \cup {"none"} :
       IF ok
       THEN /\ streams' = [streams EXCEPT !["camera"] = "live", !["processed"] = "live"]
            /\ segmentationRef' = IF seg \in {"none", "init"}
                                  THEN segmentationRef ELSE TRUE
            /\ loopsRef' = IF seg = "ok" THEN loopsRef + 1 ELSE loopsRef
            /\ startPc' = IF AfterSegmentation(seg) = "none" THEN NoStart
                          ELSE [startPc EXCEPT !.pc = AfterSegmentation(seg)]
            /\ isCameraEnabled' = TRUE
            /\ IF seg \in SegFailures THEN Fault("segInit") ELSE NoFault
       ELSE /\ seg = "none"
            /\ startPc' = NoStart
            /\ NoFault
            /\ UNCHANGED <<streams, segmentationRef, loopsRef, isCameraEnabled>>
  /\ UNCHANGED <<react, timerRef, analysisIntervalRef, mediaRecorderRef, chunksRef,
                 screenTrack, endCap, fin, inflight, store, now, ids, recGen,
                 ticks, loads, completed, stops, recTicks, wroteUnder, finTrace,
                 isIdle, period, bgMode, sample, toggles, polls, apart, resumed, stopTrace, samplers>>
  /\ Effects(FALSE)

(* The label of a screen video track is given by the browser.  A track of   *)
(* getDisplayMedia is labelled after the surface shared; for the track of   *)
(* fallbackCanvas.captureStream(10) the label is the browser's choice: a    *)
(* name that holds the word canvas, an empty string, or a generated id.     *)
ScreenLabels == {"screen:0:0"}
CanvasLabels == {"canvas", "", "guid"}
TrackLabels(kind, placeholders) ==
  IF kind = "real" THEN ScreenLabels ELSE placeholders

(* screenVideoTrack.label.includes('canvas') *)
IncludesCanvas(label) == label = "canvas"

(* if (screenVideoTrack && screenVideoTrack.readyState === 'live' &&        *)
(*     !screenVideoTrack.label.includes('canvas')) screenVideoTrack.onended = ... *)
AttachesOnEnded(label) == ~IncludesCanvas(label)

(* getDisplayMedia settles (kind "canvas": it is unsupported or denied and  *)
(* the placeholder stream is used, its track labelled by one of             *)
(* `placeholders`); steps 5 and 6 run to the end of                         *)
(* startMonitoring.  out names the statement that throws, after which the   *)
(* catch block runs: "capture" (compCanvas.captureStream, before streamRef  *)
(* is assigned), "ctor" (new MediaRecorder, after streamRef is assigned) or *)
(* "start" (recorder.start, after mediaRecorderRef is assigned); "ok" when  *)
(* none does.                                                               *)
DisplayMediaSettles(outs, placeholders) ==
  /\ startPc.pc = "getDisplayMedia"
  /\ \E kind \in {"real", "canvas"}, out \in outs \cup {"ok"} :
     \E label \in TrackLabels(kind, placeholders) :
       /\ screenTrack' = [kind |-> kind,
                          handler |-> out = "ok" /\ AttachesOnEnded(label)]
       /\ loopsRef' = loopsRef + 1
       /\ streams' = [streams EXCEPT
                        !["screen"] = "live",
                        !["recording"] = IF out = "capture" THEN @ ELSE "live"]
       /\ mediaRecorderRef' =
            CASE out = "ok" -> [state |-> "recording", id |-> startPc.rec]
              [] out = "start" -> [state |-> "inactive", id |-> startPc.rec]
              [] OTHER -> mediaRecorderRef
       /\ IF out = "ok"
          THEN /\ status' = "RECORDING"
               /\ timerRef' = TRUE
               /\ analysisIntervalRef' = TRUE
               /\ samplers' = startAnalysisLoop(samplers, analysisIntervalRef)
               /\ endCap' = IF AttachesOnEnded(label) THEN startPc.cap ELSE endCap
          ELSE UNCHANGED <<status, timerRef, analysisIntervalRef, endCap,
                           samplers>>
  /\ startPc' = NoStart
  /\ UNCHANGED <<elapsedTime, logs, activeSessionId, showRecovery, recoveryMeta,
                 segmentationRef, chunksRef, fin, inflight, store, now, ids,
                 recGen, ticks, loads, completed, stops, recTicks, wroteUnder,
                 finTrace>>
  /\ Effects(FALSE)
  /\ period' = IF status' = "RECORDING" /\ status # "RECORDING"
               THEN SamplerPeriod(isIdle) ELSE period
  /\ NoFault
  /\ comp' = [comp EXCEPT !.cams = @ \cup {comp.pending}]
  /\ UNCHANGED <<isCameraEnabled, isIdle, bgMode, sample, toggles,
                 polls, alone, resumed, stopTrace>>

(* The placeholder track labelled with the word canvas. *)
DisplayMediaResult(outs) == DisplayMediaSettles(outs, {"canvas"})

(* pauseMonitoring *)
PauseClick(writes) ==
  /\ status = "RECORDING" /\ ~showRecovery
  /\ mediaRecorderRef' = IF mediaRecorderRef.state = "recording"
                         THEN [mediaRecorderRef EXCEPT !.state = "paused"]
                         ELSE mediaRecorderRef
  /\ analysisIntervalRef' = FALSE
  /\ samplers' = ClearSampler(samplers, analysisIntervalRef)
  /\ period' = 0
  /\ status' = "PAUSED"
  /\ \E w \in writes \cup {"ok"} :
       saveSessionToStorage(elapsedTime, logs, chunksRef, w)
  /\ UNCHANGED <<elapsedTime, logs, activeSessionId, showRecovery, recoveryMeta,
                 timerRef, loopsRef, segmentationRef, chunksRef, streams,
                 screenTrack, endCap, tasks, dbVideos, now, ids, recGen, ticks,
                 loads, completed, stops, recTicks, finTrace,
                 isCameraEnabled, isIdle, bgMode, sample, toggles, polls, apart, stopTrace>>
  /\ resumed' = AfterPauseCall(resumed)
  /\ Effects(TRUE)

(* resumeMonitoring *)
ResumeClick ==
  /\ status = "PAUSED" /\ ~showRecovery
  /\ IF StreamActive(streams)
     THEN /\ mediaRecorderRef' = IF mediaRecorderRef.state = "paused"
                                 THEN [mediaRecorderRef EXCEPT !.state = "recording"]
                                 ELSE mediaRecorderRef
          /\ analysisIntervalRef' = TRUE
          /\ samplers' = startAnalysisLoop(samplers, analysisIntervalRef)
          /\ isIdle' = FALSE
          /\ period' = SamplerPeriod(isIdle')
          /\ status' = "RECORDING"
          /\ NoFault
          /\ resumed' = AfterResumeCall(resumed)
          /\ UNCHANGED <<isCameraEnabled, bgMode, sample, toggles,
                         polls, apart, stopTrace>>
          /\ UNCHANGED <<elapsedTime, logs, activeSessionId, showRecovery,
                         recoveryMeta, timerRef, loopsRef, segmentationRef,
                         chunksRef, streams, screenTrack, endCap, tasks, store,
                         now, ids, recGen, ticks, loads, completed, stops,
                         recTicks, wroteUnder, finTrace>>
          /\ Effects(FALSE)
     ELSE /\ startPc.pc = "none"
          /\ startMonitoring


(* The statements of stopMonitoring that release something, in the order in *)
(* which they run (849-862): the tracks of the four streams are stopped,    *)
(* stopLoops clears the intervals of loopsRef (segmentation and compositor  *)
(* loops), then the ticker and the sampler are cleared.  A statement is     *)
(* listed when there is something for it to release.                        *)
StopOrder(live, loops, ticker, sampler) ==
  SelectSeq(<<"tracks", "loops", "ticker", "sampler">>,
            LAMBDA x : \/ x = "tracks" /\ live
                       \/ x = "loops" /\ loops
                       \/ x = "ticker" /\ ticker
                       \/ x = "sampler" /\ sampler)

(* stopMonitoring as created in a render where (activeSessionId,            *)
(* elapsedTime, logs) = cap; base is the state of the streams when it is    *)
(* called.  The refs it reads are the current ones.  The screen track it    *)
(* stops can no longer fire onended, so its handler is forgotten.           *)
stopMonitoring(cap, via, base) ==
  /\ RecorderActive(mediaRecorderRef) => fin.pc = "none"
  /\ streams' = StopTracks(base)
  /\ loopsRef' = 0
  /\ segmentationRef' = FALSE
  /\ timerRef' = FALSE
  /\ analysisIntervalRef' = FALSE
  /\ samplers' = ClearSampler(samplers, analysisIntervalRef)
  /\ IF RecorderActive(mediaRecorderRef)
     THEN /\ mediaRecorderRef' = [mediaRecorderRef EXCEPT !.state = "inactive"]
          /\ fin' = [pc |-> "flush", id |-> cap.id, time |-> cap.time,
                     logs |-> cap.logs, blob |-> <<>>, finalChunks |-> <<>>,
                     rec |-> mediaRecorderRef.id,
                     via |-> via, curId |-> activeSessionId,
                     curTime |-> elapsedTime, curLogs |-> logs,
                     recTicks |-> recTicks, under |-> wroteUnder,
                     atStop |-> chunksRef, overtaken |-> FALSE]
          /\ finTrace' = <<>>
          /\ UNCHANGED <<elapsedTime, logs, chunksRef, meta>>
     ELSE /\ elapsedTime' = 0
          /\ logs' = <<>>
          /\ chunksRef' = <<>>
          /\ meta' = NoMeta
          /\ UNCHANGED <<mediaRecorderRef, fin, finTrace>>
  /\ status' = "IDLE"
  /\ stops' = IF status \in {"RECORDING", "PAUSED"} THEN stops + 1 ELSE stops
  /\ screenTrack' = NoTrack
  /\ endCap' = NoCap
  /\ UNCHANGED <<activeSessionId, showRecovery, recoveryMeta, startPc, inflight,
                 recChunks, dbLogs, dbVideos, now, ids, recGen, ticks, loads,
                 completed, recTicks, wroteUnder>>
  /\ Effects(FALSE)
  /\ isCameraEnabled' = TRUE
  /\ isIdle' = FALSE
  /\ period' = 0
  /\ NoFault
  /\ resumed' = AfterStopCall(resumed, via, RecorderActive(mediaRecorderRef))
  /\ stopTrace' = StopOrder(\E s \in StreamNames : base[s] = "live", loopsRef > 0,
                            timerRef, analysisIntervalRef)
  /\ comp' = [comp EXCEPT !.cams = {}]
  /\ UNCHANGED <<bgMode, sample, toggles, polls, alone>>

(* The End button, rendered while status is not IDLE. *)
StopClick ==
  /\ status # "IDLE" /\ ~showRecovery
  /\ stopMonitoring([id |-> activeSessionId, time |-> elapsedTime, logs |-> logs],
                    "user", streams)

(* The screen-share track ends by an external signal (the user revokes the  *)
(* share).  Its onended handler, when startMonitoring installed one, calls  *)
(* the stopMonitoring captured at that startMonitoring call.                *)
ScreenTrackEnded ==
  /\ streams["screen"] = "live" /\ screenTrack.kind = "real"
  /\ IF screenTrack.handler
     THEN stopMonitoring(endCap, "ended", [streams EXCEPT !["screen"] = "ended"])
     ELSE /\ streams' = [streams EXCEPT !["screen"] = "ended"]
          /\ NoFault
          /\ UNCHANGED <<react, timerRef, analysisIntervalRef, loopsRef,
                         segmentationRef, mediaRecorderRef, chunksRef, screenTrack,
                         endCap, tasks, store, now, ids, recGen, ticks, loads,
                         completed, stops, recTicks, wroteUnder, finTrace, extra>>
          /\ Effects(FALSE)

(* recorder.ondataavailable, every second while the recorder records *)
DataAvailable ==
  /\ mediaRecorderRef.state = "recording"
  /\ Len(chunksRef) < MaxChunks
  /\ chunksRef' = Append(chunksRef, <<mediaRecorderRef.id, Len(chunksRef) + 1>>)
  /\ UNCHANGED <<react, timerRef, analysisIntervalRef, loopsRef, segmentationRef,
                 mediaRecorderRef, streams, screenTrack, endCap, tasks, store, now,
                 ids, recGen, ticks, loads, completed, stops, recTicks,
                 wroteUnder, finTrace>>
  /\ Effects(FALSE)
  /\ NoFault
  /\ UNCHANGED extra

(* The stopped recorder delivers its last chunk (flush: it holds data) and  *)
(* its stop event: the onstop handler runs to its first await.  fin.atStop  *)
(* remembers the buffer as stopMonitoring left it and fin.overtaken whether *)
(* startMonitoring was called between that stop and this event.             *)
RecorderStopEvent ==
  /\ fin.pc = "flush"
  /\ \E flush \in BOOLEAN :
       /\ chunksRef' = IF flush THEN Append(chunksRef, <<fin.rec, 0>>) ELSE chunksRef
       /\ IF SavesVideo(chunksRef')
          THEN /\ fin' = [fin EXCEPT !.pc = "saveVideo", !.blob = chunksRef',
                                      !.finalChunks = chunksRef',
                                      !.overtaken = recGen > fin.rec]
               /\ finTrace' = Append(finTrace, "putVideo")
          ELSE /\ fin' = [fin EXCEPT !.pc = "clearChunks",
                                      !.finalChunks = chunksRef',
                                      !.overtaken = recGen > fin.rec]
               /\ UNCHANGED finTrace
  /\ UNCHANGED <<react, timerRef, analysisIntervalRef, loopsRef, segmentationRef,
                 mediaRecorderRef, streams, screenTrack, endCap, startPc, inflight,
                 store, now, ids, recGen, ticks, loads, completed, stops,
                 recTicks, wroteUnder>>
  /\ Effects(FALSE)
  /\ NoFault
  /\ UNCHANGED extra

VideoFailures == {"videoOpen", "videoTx"}

(* saveVideoToDB (db.ts 20-32): initDB is awaited inside the try block, so  *)
(* its rejection ("videoOpen") is caught and the promise resolves; the      *)
(* transaction's promise is returned without await, so its rejection        *)
(* ("videoTx", tx.onerror) is the rejection of saveVideoToDB.               *)
AwaitVideoSave(out) == IF out = "videoTx" THEN "rejected" ELSE "resolved"

(* await saveVideoToDB(activeSessionId, blob) settles.  Resolved: the       *)
(* handler goes on, clearRecoveryChunks is called and awaited.  Rejected:   *)
(* the await throws and the onstop handler ends there.                      *)
VideoSaved(outs) ==
  /\ fin.pc = "saveVideo"
  /\ \E out \in outs \cup {"ok"} :
       /\ dbVideos' = IF out = "ok" THEN [dbVideos EXCEPT ![fin.id] = fin.blob]
                      ELSE dbVideos
       /\ fin' = IF AwaitVideoSave(out) = "resolved"
                 THEN [fin EXCEPT !.pc = "clearChunks"] ELSE NoFin
       /\ IF out = "ok" THEN NoFault ELSE Fault(out)
  /\ UNCHANGED <<react, refs, startPc, inflight, meta, recChunks, dbLogs, now,
                 ids, recGen, ticks, loads, completed, stops, recTicks,
                 wroteUnder, finTrace, aux, sample, toggles, polls, apart, resumed, stopTrace, samplers>>
  /\ Effects(FALSE)

(* await clearRecoveryChunks() resolves; the rest of the onstop handler.    *)
(* completed counts the onSessionComplete calls, keeps the ids passed to    *)
(* them since the page was loaded, and holds the payload of                 *)
(* the last one, with what the state held when its stopMonitoring was      *)
(* called; the payload is forgotten when the next session is started.      *)
ClearDone ==
  /\ fin.pc = "clearChunks"
  /\ recChunks' = <<>>
  /\ meta' = NoMeta
  /\ completed' = [n |-> completed.n + 1,
                   passed |-> Append(completed.passed, fin.id), last |->
        [id |-> fin.id, duration |-> fin.time, logs |-> fin.logs,
         video |-> fin.blob, finalChunks |-> fin.finalChunks,
         via |-> fin.via, curId |-> fin.curId,
         curTime |-> fin.curTime, curLogs |-> fin.curLogs,
         recTicks |-> fin.recTicks, under |-> fin.under, rec |-> fin.rec]]
  /\ dbLogs' = IF Len(fin.logs) > 0 THEN [dbLogs EXCEPT ![fin.id] = fin.logs]
               ELSE dbLogs
  /\ finTrace' = finTrace \o <<"clearChunks", "complete">>
                    \o (IF Len(fin.logs) > 0 THEN <<"putLogs">> ELSE <<>>)
  /\ elapsedTime' = 0
  /\ logs' = <<>>
  /\ chunksRef' = <<>>
  /\ fin' = NoFin
  /\ UNCHANGED <<status, activeSessionId, showRecovery, recoveryMeta, timerRef,
                 analysisIntervalRef, loopsRef, segmentationRef, mediaRecorderRef,
                 streams, screenTrack, endCap, startPc, inflight, dbVideos, now,
                 ids, recGen, ticks, loads, stops, recTicks, wroteUnder>>
  /\ Effects(FALSE)
  /\ NoFault
  /\ UNCHANGED extra

(* ------------------------- analysis sampler --------------------------- *)

(* The sampler interval fires: the frame and thumbnail are captured and the *)
(* callback awaits the audio snapshot and the classification.               *)
SampleBegin ==
  /\ samplers > 0
  /\ inflight < MaxInflight
  /\ inflight' = inflight + 1
  /\ sample' = Append(sample, [cam |-> isCameraEnabled])
  /\ NoFault
  /\ UNCHANGED <<react, refs, startPc, fin, store, now, ids, recGen, ticks,
                 loads, completed, stops, recTicks, wroteUnder, finTrace,
                 aux, toggles, polls, apart, resumed, stopTrace, samplers>>
  /\ Effects(FALSE)

(* analyzeSessionContext settles for one of the ticks in flight.  Resolved  *)
(* to an object: setLogs(prev => [newLog, ...prev]), with isCameraOn read   *)
(* from isCameraEnabledRef now.  Rejected, or resolved to null: the         *)
(* callback throws before setLogs.                                          *)
SampleSettles(calls, maxLogs) ==
  /\ inflight > 0
  /\ Len(logs) < maxLogs
  /\ inflight' = inflight - 1
  /\ \E i \in 1..Len(sample), c \in calls :
       LET r == analyzeSessionContext(c) IN
         /\ sample' = [k \in 1..(Len(sample) - 1) |->
                         IF k < i THEN sample[k] ELSE sample[k + 1]]
         /\ logs' = IF r.settled = "resolved" /\ r.value # ParsedNull
                    THEN setLogs(AnalysisLog(now, isCameraEnabled, sample[i].cam,
                                             r.value), logs)
                    ELSE logs
         /\ IF TryAnalyze(c).threw THEN Fault("classify")
            ELSE IF r.value = ParsedNull THEN Fault("nullReply")
            ELSE NoFault
  /\ UNCHANGED <<status, elapsedTime, activeSessionId, showRecovery, recoveryMeta,
                 refs, startPc, fin, store, now, ids, recGen, ticks, loads,
                 completed, stops, recTicks, wroteUnder, finTrace,
                 aux, toggles, polls, apart, resumed, stopTrace, samplers>>
  /\ Effects(FALSE)

SampleEnd(calls) == SampleSettles(calls, MaxLogs)

(* ------------------------------- time --------------------------------- *)

Min(a, b) == IF a < b THEN a ELSE b

(* One second passes.  The elapsed-time ticker (timerRef), when scheduled,  *)
(* runs setElapsedTime(prev => prev + 1); the render that follows re-arms   *)
(* the checkpoint interval.  Otherwise the checkpoint interval comes one    *)
(* second closer to firing, and on firing runs its callback.                *)
Second(maxT, writes) ==
  /\ ticks < maxT
  /\ now' = now + TickMs
  /\ ticks' = ticks + 1
  /\ recTicks' = IF status = "RECORDING" THEN recTicks + 1 ELSE recTicks
  /\ IF timerRef
     THEN /\ elapsedTime' = elapsedTime + 1
          /\ ckptTimer' = 0
          /\ sinceCkpt' = IF status = "RECORDING"
                          THEN Min(sinceCkpt + 1, CheckpointTicks + 1) ELSE 0
          /\ NoFault
          /\ UNCHANGED <<store, wroteUnder>>
     ELSE /\ UNCHANGED elapsedTime
          /\ IF status \in {"RECORDING", "PAUSED"} /\ ckptTimer + 1 >= CheckpointTicks
             THEN /\ \E w \in writes \cup {"ok"} :
                       /\ saveSessionToStorage(elapsedTime, logs, chunksRef, w)
                       /\ sinceCkpt' = IF w = "ok" \/ status # "RECORDING" THEN 0
                                       ELSE Min(sinceCkpt + 1, CheckpointTicks + 1)
                  /\ ckptTimer' = 0
                  /\ UNCHANGED dbVideos
             ELSE /\ ckptTimer' = IF status = "IDLE" THEN 0 ELSE ckptTimer + 1
                  /\ sinceCkpt' = IF status = "RECORDING"
                                  THEN Min(sinceCkpt + 1, CheckpointTicks + 1) ELSE 0
                  /\ NoFault
                  /\ UNCHANGED <<store, wroteUnder>>
  /\ UNCHANGED <<status, logs, activeSessionId, showRecovery, recoveryMeta, refs,
                 tasks, ids, recGen, loads, completed, stops, finTrace,
                 aux, sample, toggles, polls, apart, resumed, stopTrace, samplers>>

(* ------------------------- reload and recovery ------------------------ *)

(* The page is reloaded (or crashes and is reopened) after a downtime gap:  *)
(* the component is constructed anew, with a fresh activeSessionId, and the *)
(* mount effect runs checkSavedSession.  Storage survives.                  *)
Reload ==
  /\ loads < MaxLoads
  /\ \E gap \in Gaps : now' = now + gap
  /\ status' = "IDLE" /\ elapsedTime' = 0 /\ logs' = <<>>
  /\ activeSessionId' = NextId(minted) /\ minted' = minted + 1
  /\ UNCHANGED sessions
  /\ IF meta.present /\ WithinRetention(meta, now')
     THEN recoveryMeta' = meta /\ showRecovery' = TRUE
     ELSE recoveryMeta' = NoMeta /\ showRecovery' = FALSE
  /\ timerRef' = FALSE /\ analysisIntervalRef' = FALSE /\ loopsRef' = 0
  /\ segmentationRef' = FALSE
  /\ mediaRecorderRef' = [state |-> "none", id |-> 0]
  /\ chunksRef' = <<>> /\ streams' = NoStreams /\ screenTrack' = NoTrack
  /\ endCap' = NoCap
  /\ startPc' = NoStart /\ fin' = NoFin /\ inflight' = 0
  /\ ckptTimer' = 0 /\ sinceCkpt' = 0
  /\ loads' = loads + 1
  /\ stops' = completed.n
  /\ recTicks' = 0 /\ wroteUnder' = {} /\ finTrace' = <<>>
  /\ isCameraEnabled' = TRUE /\ isIdle' = FALSE /\ period' = 0 /\ sample' = <<>>
  /\ NoFault
  /\ resumed' = NoResumed
  /\ stopTrace' = <<>>
  /\ samplers' = 0
  /\ comp' = NoCompositor
  /\ UNCHANGED <<store, recGen, ticks, completed, bgMode, toggles,
                 polls, alone>>

(* handleResumeSession: the Resume button of the recovery modal *)
handleResumeSession ==
  /\ showRecovery /\ recoveryMeta.present
  /\ elapsedTime' = recoveryMeta.elapsedTime
  /\ logs' = recoveryMeta.logs
  /\ chunksRef' = DbSettle([op |-> "loadRecoveryChunks", fail |-> "none",
                             stored |-> recChunks]).value
  /\ status' = "PAUSED"
  /\ showRecovery' = FALSE
  /\ recoveryMeta' = NoMeta
  /\ recTicks' = recoveryMeta.recTicks
  /\ wroteUnder' = recoveryMeta.under
  /\ UNCHANGED <<activeSessionId, timerRef, analysisIntervalRef, loopsRef,
                 segmentationRef, mediaRecorderRef, streams, screenTrack, endCap,
                 tasks, store, now, ids, recGen, ticks, loads, completed, stops,
                 finTrace>>
  /\ Effects(FALSE)
  /\ NoFault
  /\ resumed' = [phase |-> "paused", time |-> recoveryMeta.elapsedTime,
                 logs |-> recoveryMeta.logs, chunks |-> recChunks,
                 recTicks |-> recoveryMeta.recTicks, rec |-> 0, kept |-> <<>>]
  /\ UNCHANGED <<aux, sample, toggles, polls, apart, stopTrace, samplers>>

(* handleDiscardSession: the Discard button of the recovery modal *)
handleDiscardSession ==
  /\ showRecovery
  /\ recChunks' = <<>>
  /\ meta' = NoMeta
  /\ showRecovery' = FALSE
  /\ recoveryMeta' = NoMeta
  /\ UNCHANGED <<status, elapsedTime, logs, activeSessionId, refs, tasks, dbLogs,
                 dbVideos, now, ids, recGen, ticks, loads, completed, stops,
                 recTicks, wroteUnder, finTrace>>
  /\ Effects(FALSE)
  /\ NoFault
  /\ UNCHANGED extra

(* ---------------------- camera, idle, background ---------------------- *)

(* toggleCamera: the Hide Cam / Show Cam button, rendered while status is   *)
(* not IDLE.  The effect on [isCameraEnabled] copies the flag into          *)
(* isCameraEnabledRef.                                                      *)
toggleCamera ==
  /\ status # "IDLE" /\ ~showRecovery
  /\ toggles < MaxToggles
  /\ toggles' = toggles + 1
  /\ isCameraEnabled' = ~isCameraEnabled
  /\ NoFault
  /\ UNCHANGED <<react, refs, tasks, store, now, ghost, isIdle, period, bgMode,
                 sample, polls, apart, resumed, stopTrace, samplers>>
  /\ UNCHANGED ckptTimer

(* One of the compositor intervals fires (every 33 ms): drawCompositor      *)
(* paints the screen and then the camera inset when the isCameraEnabled of  *)
(* its closure is true and the camera video has data.  The closure belongs  *)
(* to the startMonitoring call that scheduled the interval, so the flag is  *)
(* the state of the render in which that call was made.                     *)
drawCompositor(closure, state, ready) == closure /\ ready

CompositorTick ==
  /\ \E c \in comp.cams, ready \in BOOLEAN :
       comp' = [comp EXCEPT !.frame =
                  [drawn |-> TRUE,
                   inset |-> drawCompositor(c, isCameraEnabled, ready),
                   ready |-> ready,
                   cam |-> isCameraEnabled]]
  /\ NoFault
  /\ UNCHANGED <<react, refs, tasks, store, clock, ghost, aux, sample,
                 toggles, polls, alone, resumed, stopTrace, samplers>>

(* checkIdleInterval fires (every 5 s) and finds that the last activity was *)
(* `since` ms ago.  It returns at once unless status is RECORDING.  When    *)
(* the idle value it computes differs from isIdle it prepends one activity  *)
(* log and sets isIdle; the analysis-loop effect then restarts the sampler  *)
(* with the period of the new value.                                        *)
IdlePoll(maxLogs) ==
  /\ status = "RECORDING"
  /\ polls.n < MaxPolls
  /\ \E since \in QuietTimes :
       /\ polls' = [n |-> polls.n + 1, since |-> since]
       /\ IF CurrentlyIdle(since) # isIdle
          THEN /\ Len(logs) < maxLogs
               /\ logs' = setLogs(IdleLog(now, isCameraEnabled,
                                           CurrentlyIdle(since)), logs)
               /\ isIdle' = CurrentlyIdle(since)
               /\ period' = SamplerPeriod(isIdle')
               /\ analysisIntervalRef' = TRUE
               /\ samplers' = startAnalysisLoop(samplers, analysisIntervalRef)
          ELSE UNCHANGED <<logs, isIdle, period, analysisIntervalRef, samplers>>
  /\ NoFault
  /\ UNCHANGED <<status, elapsedTime, activeSessionId, showRecovery, recoveryMeta,
                 timerRef, loopsRef, segmentationRef, mediaRecorderRef, chunksRef,
                 streams, screenTrack, endCap, tasks, store, now, ids, recGen,
                 ticks, loads, completed, stops, recTicks, wroteUnder, finTrace,
                 isCameraEnabled, bgMode, sample, toggles, apart, resumed,
                 stopTrace>>
  /\ Effects(FALSE)

(* A recorder whose capture is restarted when the background mode changes. *)
RecorderAfterBgEffectsRestart(r) ==
  IF r.state = "recording" THEN [r EXCEPT !.state = "inactive"] ELSE r

(* What the two effects that depend on bgConfig leave of the recorder: the  *)
(* bgConfig effect (303-318) copies the configuration into bgConfigRef and  *)
(* localStorage, the camera-source effect (356-376) re-points the two       *)
(* preview elements; neither touches the recorder or its streams.           *)
RecorderAfterBgEffects(r) == r

(* The Blur / Image / None buttons of the settings popover (rendered with   *)
(* the session controls): setBgConfig(p => ({...p, mode})) and the effects  *)
(* that follow.                                                             *)
setBgMode ==
  /\ status # "IDLE" /\ ~showRecovery
  /\ \E m \in BgModes \ {bgMode} : bgMode' = m
  /\ mediaRecorderRef' = RecorderAfterBgEffects(mediaRecorderRef)
  /\ NoFault
  /\ UNCHANGED <<react, timerRef, analysisIntervalRef, loopsRef, segmentationRef,
                 chunksRef, streams, screenTrack, endCap, tasks, store, now, ghost,
                 isCameraEnabled, isIdle, period, sample, toggles, polls,
                 apart, resumed, stopTrace, samplers>>
  /\ UNCHANGED ckptTimer

(* One frame of the 30 fps segmentation loop whose segmentation.send        *)
(* rejects: the loop's own try/catch logs it and the loop goes on.          *)
SegSendFails ==
  /\ segmentationRef /\ loopsRef > 0 /\ bgMode # "none"
  /\ Fault("segSend")
  /\ UNCHANGED <<react, refs, tasks, store, clock, ghost, aux, sample, toggles,
                 polls, apart, resumed, stopTrace, samplers>>

(* ------------------------ classification call ------------------------- *)

(* One call of analyzeSessionContext settles. *)
Analyze ==
  /\ analysisOut.settled = "pending"
  /\ analysisOut' = analyzeSessionContext(analysisIn)
  /\ NoFault
  /\ UNCHANGED <<react, refs, tasks, store, clock, ghost, aux, sample, toggles,
                 polls, analysisIn, kv, saves, dbIn, dbOut, resumed, stopTrace,
                 samplers, segm, comp, starts>>

(* ------------------------- overlapping starts ------------------------- *)

OtherThanStarts ==
  <<react, refs, tasks, store, clock, ghost, aux, sample, toggles, polls,
    analysisIn, analysisOut, kv, saves, dbIn, dbOut, segm, comp, resumed,
    stopTrace, samplers>>

(* The Start button (989-990) is rendered while status is IDLE and nothing  *)
(* disables it while a call of startMonitoring is awaiting.  Call i begins: *)
(* under status IDLE it empties the chunk buffer and sets a fresh           *)
(* activeSessionId (628-631), then awaits getUserMedia.                     *)
StartPressed(i) ==
  /\ starts.status = "IDLE"
  /\ starts.pc[i] = "none"
  /\ \A k \in 1..(i - 1) : starts.pc[k] # "none"
  /\ starts' = [starts EXCEPT !.pc[i] = "getUserMedia",
                               !.chunksRef = <<>>,
                               !.minted = @ + 1,
                               !.activeSessionId = starts.minted + 1]
  /\ NoFault
  /\ UNCHANGED OtherThanStarts

(* getUserMedia of call i settles (637-647): granted, its streams are live  *)
(* and the call goes on to the screen; refused, the catch block ends it.    *)
StartGetsUserMedia(i) ==
  /\ starts.pc[i] = "getUserMedia"
  /\ \E ok \in BOOLEAN :
       starts' = IF ok
                 THEN [starts EXCEPT !.pc[i] = "getDisplayMedia",
                                     !.streams = @ \cup {i}]
                 ELSE [starts EXCEPT !.pc[i] = "failed"]
  /\ NoFault
  /\ UNCHANGED OtherThanStarts

(* The screen stream of call i is there (700-727) and the call runs to its  *)
(* end: it makes a recorder, puts it into mediaRecorderRef, gives it the    *)
(* ondataavailable that pushes onto chunksRef, starts it and sets the       *)
(* status (768-790).  Nothing stops a recorder made by an earlier call.     *)
StartMakesRecorder(i) ==
  /\ starts.pc[i] = "getDisplayMedia"
  /\ starts' = [starts EXCEPT !.pc[i] = "done",
                               !.recording = @ \cup {i},
                               !.mediaRecorderRef = i,
                               !.status = "RECORDING"]
  /\ NoFault
  /\ UNCHANGED OtherThanStarts

(* The recorder of call r emits a chunk: chunksRef.current.push (782-786). *)
StartsDataAvailable(r) ==
  /\ r \in starts.recording
  /\ Len(starts.chunksRef) < MaxAppends
  /\ starts' = [starts EXCEPT !.chunksRef = Append(@, r)]
  /\ NoFault
  /\ UNCHANGED OtherThanStarts

(* Step 2 of startMonitoring (649-689): the instance is made, put into      *)
(* segmentationRef, and the 30 fps segInterval is set and pushed onto       *)
(* loopsRef.                                                                *)
SegSetup ==
  /\ ~segm.made
  /\ segm' = [segm EXCEPT !.made = TRUE, !.ref = TRUE, !.loop = TRUE,
                           !.open = TRUE]
  /\ NoFault
  /\ UNCHANGED <<react, refs, tasks, store, clock, ghost, aux, sample, toggles,
                 polls, analysisIn, analysisOut, kv, saves, dbIn, dbOut, resumed,
                 stopTrace, samplers, comp, starts>>

(* The segInterval callback (675-688): with the ref set and a background    *)
(* mode other than none it calls segmentation.send and awaits it; d is the  *)
(* time the send takes.  The interval does not wait for the callback, so    *)
(* sends overlap.                                                           *)
SegIntervalFires ==
  /\ segm.loop /\ segm.ref
  /\ Len(segm.sends) < MaxPending
  /\ \E mode \in BgModes, d \in SendMs :
       segm' = IF mode # "none"
               THEN [segm EXCEPT !.sends = Append(@, d)] ELSE segm
  /\ NoFault
  /\ UNCHANGED <<react, refs, tasks, store, clock, ghost, aux, sample, toggles,
                 polls, analysisIn, analysisOut, kv, saves, dbIn, dbOut, resumed,
                 stopTrace, samplers, comp, starts>>

(* stopMonitoring or the unmount clean-up calls stopLoops. *)
SegStopLoops ==
  /\ segm.made /\ segm.loop
  /\ segm' = stopLoops(segm)
  /\ NoFault
  /\ UNCHANGED <<react, refs, tasks, store, clock, ghost, aux, sample, toggles,
                 polls, analysisIn, analysisOut, kv, saves, dbIn, dbOut, resumed,
                 stopTrace, samplers, comp, starts>>

(* Time passes up to the next event: the sends that are due complete, and   *)
(* after them, when the close timeout is due, seg.close() runs.             *)
SegTimePasses ==
  /\ SegTimers(segm) # {}
  /\ LET dt == SegNextEvent(segm)
         left == SendsAfter(segm.sends, dt)
         closes == segm.closeIn = dt
     IN segm' = [segm EXCEPT
                   !.sends = left,
                   !.closeIn = IF @ < 0 \/ closes THEN -1 ELSE @ - dt,
                   !.open = IF closes THEN FALSE ELSE @,
                   !.closedWith = IF closes THEN Len(left) ELSE @]
  /\ NoFault
  /\ UNCHANGED <<react, refs, tasks, store, clock, ghost, aux, sample, toggles,
                 polls, analysisIn, analysisOut, kv, saves, dbIn, dbOut, resumed,
                 stopTrace, samplers, comp, starts>>

(* One operation of the durable store settles. *)
DbCall ==
  /\ dbOut.settled = "pending"
  /\ dbOut' = DbSettle(dbIn)
  /\ NoFault
  /\ UNCHANGED <<react, refs, tasks, store, clock, ghost, aux, sample, toggles,
                 polls, analysisIn, analysisOut, kv, saves, dbIn, resumed,
                 stopTrace, samplers, segm, comp, starts>>

(* ----------------------- durable stores, by key ----------------------- *)

(* localStorage's key of the snapshot and the chunk store's key of the      *)
(* recovery buffer; the log and video stores are keyed by session id.       *)
MetaKey == "sw_session_meta"
ChunkKey == "active_session"
NoSnapshot == [elapsedTime |-> 0, logs |-> <<>>]

(* A store that adds a record on every write. *)
PutAppend(t, k, v) == Append(t, [key |-> k, value |-> v])

(* localStorage.setItem(k, v), objectStore.put(v, k) and, for a store with  *)
(* a keyPath, objectStore.put(v): the record of key k is replaced when      *)
(* there is one and added when there is none.                               *)
Put(t, k, v) ==
  IF \E i \in 1..Len(t) : t[i].key = k
  THEN [i \in 1..Len(t) |-> IF t[i].key = k THEN [key |-> k, value |-> v] ELSE t[i]]
  ELSE Append(t, [key |-> k, value |-> v])

(* getItem(k) / objectStore.get(k), with what the callers take for absent. *)
Get(t, k, absent) ==
  IF \E i \in 1..Len(t) : t[i].key = k
  THEN t[CHOOSE i \in 1..Len(t) : t[i].key = k].value
  ELSE absent

RowsOf(t, k) == Cardinality({i \in 1..Len(t) : t[i].key = k})

(* saveSessionToStorage, on the stores by key. *)
SnapshotStores(s, id, time, currentLogs, chunks) ==
  [s EXCEPT
     !.ls = Put(@, MetaKey,
                [elapsedTime |-> time, logs |-> StripThumbnails(currentLogs)]),
     !.chunks = IF Len(chunks) > 0 THEN Put(@, ChunkKey, chunks) ELSE @,
     !.logs = IF Len(currentLogs) > 0 THEN Put(@, id, currentLogs) ELSE @]

(* The timelines and chunk buffers a session passes through: logs are       *)
(* prepended, chunks are pushed.                                            *)
StoreLogs ==
  {<<>>,
   <<IdleLog(0, TRUE, TRUE)>>,
   <<AnalysisLog(1, TRUE, TRUE, NoCall.text.value), IdleLog(0, TRUE, TRUE)>>}
StoreChunks == {<<>>, <<1>>, <<1, 2>>}

IsPrefix(a, b) == Len(a) <= Len(b) /\ \A i \in 1..Len(a) : a[i] = b[i]
IsSuffix(a, b) ==
  Len(a) <= Len(b) /\ \A i \in 1..Len(a) : a[i] = b[Len(b) - Len(a) + i]

(* Within one session the timeline and the chunk buffer only grow: setLogs  *)
(* prepends, ondataavailable pushes, and both are emptied only when a       *)
(* session ends or a new one starts from IDLE.                              *)
Grows(id, currentLogs, chunks) ==
  \A k \in 1..Len(saves) :
    (saves[k].op = "snapshot" /\ saves[k].id = id) =>
      IsSuffix(saves[k].logs, currentLogs) /\ IsPrefix(saves[k].chunks, chunks)

StoreFrame ==
  /\ NoFault
  /\ UNCHANGED <<react, refs, tasks, store, clock, ghost, aux, sample, toggles,
                 polls, analysisIn, analysisOut, dbIn, dbOut, resumed, stopTrace,
                 samplers, segm, comp, starts>>

(* One write-ahead snapshot of session id. *)
SaveSnapshot ==
  /\ Len(saves) < MaxSaves
  /\ \E id \in Ids, time \in 0..1, lg \in StoreLogs, ch \in StoreChunks :
       /\ Grows(id, lg, ch)
       /\ kv' = SnapshotStores(kv, id, time, lg, ch)
       /\ saves' = Append(saves, [op |-> "snapshot", id |-> id, time |-> time,
                                  logs |-> lg, chunks |-> ch])
  /\ StoreFrame

(* saveVideoToDB(sessionId, blob) *)
PutVideo ==
  /\ Len(saves) < MaxSaves
  /\ \E id \in Ids, blob \in StoreChunks \ {<<>>} :
       /\ kv' = [kv EXCEPT !.videos = Put(@, id, blob)]
       /\ saves' = Append(saves, [op |-> "video", id |-> id, time |-> 0,
                                  logs |-> <<>>, chunks |-> blob])
  /\ StoreFrame

(* saveLogsToDB(sessionId, logs) *)
PutLogs ==
  /\ Len(saves) < MaxSaves
  /\ \E id \in Ids, lg \in StoreLogs \ {<<>>} :
       /\ kv' = [kv EXCEPT !.logs = Put(@, id, lg)]
       /\ saves' = Append(saves, [op |-> "logs", id |-> id, time |-> 0,
                                  logs |-> lg, chunks |-> <<>>])
  /\ StoreFrame

(* --------------------------- specifications --------------------------- *)
Next ==
  \/ StartClick(MaxSessions)
  \/ UserMediaResult({"ok"})
  \/ DisplayMediaResult(StartFailures)
  \/ PauseClick({})
  \/ ResumeClick
  \/ StopClick
  \/ ScreenTrackEnded
  \/ DataAvailable
  \/ RecorderStopEvent
  \/ VideoSaved({})
  \/ ClearDone
  \/ SampleBegin
  \/ SampleEnd({NoCall})
  \/ Second(MaxTicks, {})
  \/ Reload
  \/ handleResumeSession
  \/ handleDiscardSession

Spec == Init /\ [][Next]_vars

(* The same engine followed over more than one checkpoint interval, without *)
(* the sampler, the chunk stream and device loss.                           *)
NextTimer ==
  \/ StartClick(MaxSessions)
  \/ UserMediaResult({"ok"})
  \/ DisplayMediaResult({})
  \/ PauseClick({})
  \/ ResumeClick
  \/ StopClick
  \/ RecorderStopEvent
  \/ VideoSaved({})
  \/ ClearDone
  \/ Second(LongTicks, {})
  \/ Reload
  \/ handleResumeSession

SpecTimer == Init /\ [][NextTimer]_vars

(* The replies the sampler's classification call meets where failures are *)
(* followed: a good one, a meeting, a call that fails for want of a key,    *)
(* and a reply that parses to null.                                         *)
SamplerCalls ==
  {NoCall,
   GoodCall("Work", [summary |-> "reply", category |-> "Meeting", riskLevel |-> "high"]),
   [NoCall EXCEPT !.apiKey = FALSE],
   [NoCall EXCEPT !.text = [kind |-> "null", value |-> ParsedNull]]}

(* The engine with the failures that are not acquisition failures: of the   *)
(* segmentation set-up and of one of its frames, of the classification      *)
(* call, of a write-ahead checkpoint and of the final video save.           *)
NextFaults ==
  \/ StartClick(MaxSessions)
  \/ UserMediaResult({"ok"} \cup SegFailures)
  \/ DisplayMediaResult({"ctor"})
  \/ PauseClick(WriteFailures)
  \/ ResumeClick
  \/ StopClick
  \/ RecorderStopEvent
  \/ VideoSaved(VideoFailures)
  \/ ClearDone
  \/ SampleBegin
  \/ SampleEnd(SamplerCalls)
  \/ SegSendFails
  \/ Second(MaxTicks, {})

SpecFaults == Init /\ [][NextFaults]_vars

(* The engine with its sampler, its idle detector and the camera and       *)
(* background controls, without reloads.                                    *)
NextSampler ==
  \/ StartClick(MaxSessions)
  \/ UserMediaResult({"ok"})
  \/ DisplayMediaResult({})
  \/ PauseClick({})
  \/ ResumeClick
  \/ StopClick
  \/ RecorderStopEvent
  \/ VideoSaved({})
  \/ ClearDone
  \/ DataAvailable
  \/ SampleBegin
  \/ SampleEnd(SamplerCalls)
  \/ toggleCamera
  \/ IdlePoll(MaxLogs)
  \/ setBgMode
  \/ Second(SamplerTicks, {})

SpecSampler == Init /\ [][NextSampler]_vars

(* The engine with its idle detector, the timeline long enough for every    *)
(* poll to report a transition.                                             *)
NextIdle ==
  \/ StartClick(MaxSessions)
  \/ UserMediaResult({"ok"})
  \/ DisplayMediaResult({})
  \/ PauseClick({})
  \/ ResumeClick
  \/ StopClick
  \/ RecorderStopEvent
  \/ VideoSaved({})
  \/ ClearDone
  \/ DataAvailable
  \/ toggleCamera
  \/ IdlePoll(MaxPolls)
  \/ Second(MaxTicks, {})

SpecIdle == Init /\ [][NextIdle]_vars

(* The durable stores alone, written by key. *)
NextStore ==
  \/ SaveSnapshot
  \/ PutVideo
  \/ PutLogs

SpecStore == Init /\ [][NextStore]_vars

(* The engine over two sessions in a row, with its sampler, without        *)
(* pauses and reloads.                                                      *)
NextSessions ==
  \/ StartClick(TwoSessions)
  \/ UserMediaResult({"ok"})
  \/ DisplayMediaResult({})
  \/ StopClick
  \/ DataAvailable
  \/ RecorderStopEvent
  \/ VideoSaved({})
  \/ ClearDone
  \/ SampleBegin
  \/ SampleEnd({NoCall})
  \/ Second(MaxTicks, {})

SpecSessions == Init /\ [][NextSessions]_vars

(* The engine with its compositor and the camera control, with logs of the  *)
(* sampler, without reloads.                                                *)
NextCamera ==
  \/ StartClick(MaxSessions)
  \/ UserMediaResult({"ok"})
  \/ DisplayMediaResult({})
  \/ PauseClick({})
  \/ ResumeClick
  \/ StopClick
  \/ RecorderStopEvent
  \/ VideoSaved({})
  \/ ClearDone
  \/ DataAvailable
  \/ SampleBegin
  \/ SampleEnd({NoCall})
  \/ toggleCamera
  \/ CompositorTick
  \/ Second(SamplerTicks, {})

SpecCamera == Init /\ [][NextCamera]_vars

(* The engine with its sampler and its idle detector, the timeline long     *)
(* enough for two logs, without pauses and reloads.                         *)
NextLogs ==
  \/ StartClick(MaxSessions)
  \/ UserMediaResult({"ok"})
  \/ DisplayMediaResult({})
  \/ StopClick
  \/ RecorderStopEvent
  \/ VideoSaved({})
  \/ ClearDone
  \/ SampleBegin
  \/ SampleSettles({NoCall}, TwoLogs)
  \/ IdlePoll(TwoLogs)
  \/ Second(MaxTicks, {})

SpecLogs == Init /\ [][NextLogs]_vars

(* The engine with every label the browser may give the placeholder track,  *)
(* with pauses and the end of the shared screen, without reloads.           *)
NextScreen ==
  \/ StartClick(MaxSessions)
  \/ UserMediaResult({"ok"})
  \/ DisplayMediaSettles({}, CanvasLabels)
  \/ PauseClick({})
  \/ ResumeClick
  \/ StopClick
  \/ ScreenTrackEnded
  \/ DataAvailable
  \/ RecorderStopEvent
  \/ VideoSaved({})
  \/ ClearDone
  \/ Second(MaxTicks, {})

SpecScreen == Init /\ [][NextScreen]_vars

(* The engine over two sessions in a row, each ended by the user or by the  *)
(* end of the shared screen, without pauses and reloads.                    *)
NextLoss ==
  \/ StartClick(TwoSessions)
  \/ UserMediaResult({"ok"})
  \/ DisplayMediaResult({})
  \/ StopClick
  \/ ScreenTrackEnded
  \/ DataAvailable
  \/ RecorderStopEvent
  \/ VideoSaved({})
  \/ ClearDone
  \/ Second(MaxTicks, {})

SpecLoss == Init /\ [][NextLoss]_vars

(* The operations of the durable store alone, over every call. *)
NextSegmentation ==
  \/ SegSetup
  \/ SegIntervalFires
  \/ SegStopLoops
  \/ SegTimePasses

SpecSegmentation == Init /\ [][NextSegmentation]_vars

NextDb == DbCall

SpecDb == InitDb /\ [][NextDb]_vars

(* Overlapping calls of startMonitoring alone. *)
NextStarts ==
  \/ \E i \in 1..TwoStarts : StartPressed(i)
  \/ \E i \in 1..TwoStarts : StartGetsUserMedia(i)
  \/ \E i \in 1..TwoStarts : StartMakesRecorder(i)
  \/ \E r \in 1..TwoStarts : StartsDataAvailable(r)

SpecStarts == Init /\ [][NextStarts]_vars

(* The classification service alone, over every call. *)
NextAnalyze == Analyze

SpecAnalyze == InitAnalyze /\ [][NextAnalyze]_vars

(* ------------------------------ claims -------------------------------- *)

Abs(x) == IF x < 0 THEN 0 - x ELSE x
Before(tr, a, b) == \E i, j \in 1..Len(tr) : i < j /\ tr[i] = a /\ tr[j] = b
Occurs(tr, a) == \E i \in 1..Len(tr) : tr[i] = a

(* C1: for every sequence of start, pause, resume and stop issued by the    *)
(* user, the duration passed to onSessionComplete is, within one second,    *)
(* the number of seconds the session spent in RECORDING.                    *)
C1_DurationIsRecordingSeconds ==
  completed.last.via = "user" =>
    Abs(completed.last.duration - completed.last.recTicks) <= 1

C3_CompletedIdIsCheckpointId ==
  completed.last.via = "user" => completed.last.under \subseteq {completed.last.id}

(* C4: onSessionComplete is fired exactly once for every stopMonitoring     *)
(* issued from RECORDING or PAUSED: never more calls than stops, and as     *)
(* many once no finalization is pending.                                    *)
C4_CompleteOncePerStop ==
  /\ completed.n <= stops
  /\ fin.pc = "none" => completed.n = stops

C6_DeviceLossPayloadIsCurrent ==
  completed.last.via = "ended" =>
    /\ completed.last.id = completed.last.curId
    /\ completed.last.duration = completed.last.curTime
    /\ completed.last.logs = completed.last.curLogs

(* C7: when the screen-share track ends while status is RECORDING or        *)
(* PAUSED, the stop path runs: status becomes IDLE, no stream stays live    *)
(* and no periodic task stays scheduled.  (The track's onended handler is   *)
(* the only thing the engine wires to that event, and it runs with it.)     *)
C7_DeviceLossStops ==
  [][(streams["screen"] = "live" /\ streams'["screen"] = "ended"
        /\ status \in {"RECORDING", "PAUSED"}) =>
       /\ status' = "IDLE"
       /\ \A s \in StreamNames : streams'[s] # "live"
       /\ loopsRef' = 0 /\ ~timerRef' /\ ~analysisIntervalRef']_vars

(* C8: while the session stays in RECORDING, no more than one checkpoint    *)
(* interval passes without a write-ahead checkpoint being written.          *)
C8_CheckpointEveryInterval ==
  status = "RECORDING" => sinceCkpt <= CheckpointTicks

(* C9: on load the resume prompt is shown exactly when a write-ahead        *)
(* snapshot exists whose age is less than the 3-day retention window.       *)
C9_PromptIffFresh ==
  [][loads' # loads =>
       showRecovery' = (meta.present /\ now' - meta.timestamp < RetentionMs)]_vars

(* C9 witness: the page was loaded with a snapshot exactly as old as the    *)
(* window, and no prompt is shown.                                          *)
C9_Witness ==
  /\ loads = 1 /\ meta.present /\ now - meta.timestamp = RetentionMs
  /\ status = "IDLE" /\ ~showRecovery

(* C10: accepting the resume prompt while the durable store holds no        *)
(* recovery chunks does not put the session into PAUSED.                    *)
C10_NoResumeWithoutChunks ==
  [][(showRecovery /\ ~showRecovery' /\ recChunks = <<>>) => status' # "PAUSED"]_vars

(* A step in which a startMonitoring call in flight ends in its catch       *)
(* block: the call is over and its recorder does not record.                *)
StartFailed ==
  /\ startPc.pc # "none" /\ startPc'.pc = "none" /\ loads' = loads
  /\ mediaRecorderRef' # [state |-> "recording", id |-> startPc.rec]

(* C11: after any failure inside startMonitoring, invoked from IDLE or      *)
(* through the fall-back of resumeMonitoring from PAUSED, status is IDLE.   *)
C11_StartFailureLeavesIdle ==
  [][StartFailed => status' = "IDLE"]_vars

(* C12: when startMonitoring fails after the camera stream was acquired,    *)
(* no track it acquired is still live and no segmentation or compositor     *)
(* interval it started is still scheduled.                                  *)
C12_StartFailureReleases ==
  [][(StartFailed /\ startPc.pc = "getDisplayMedia") =>
       /\ \A s \in StreamNames : streams'[s] # "live"
       /\ loopsRef' = 0]_vars

NonAcquisitionFaults ==
  {"segInit", "segSend", "classify", "nullReply", "checkpoint"}

CallFails(c) ==
  \/ ~c.apiKey
  \/ c.remote = "error"
  \/ c.text.kind \in {"empty", "garbage"}

(* C14: analyzeSessionContext never rejects; when client creation, the      *)
(* remote call or the parsing of the response fails, it resolves to the     *)
(* fall-back result, with riskLevel low and the fall-back summary.          *)
C14_AnalyzeNeverRejects ==
  /\ analysisOut.settled # "rejected"
  /\ (analysisOut.settled = "resolved" /\ CallFails(analysisIn)) =>
       /\ analysisOut.value.riskLevel = "low"
       /\ analysisOut.value.summary = FallbackSummary

(* C14 witness: a call with a key whose remote request failed has settled   *)
(* with the fall-back.                                                      *)
C14_Witness ==
  /\ analysisOut.settled = "resolved"
  /\ analysisIn.apiKey /\ analysisIn.remote = "error"
  /\ analysisOut.value.summary = FallbackSummary

(* A step in which the callback of a sampler tick runs to its end. *)
TickSettles == inflight' = inflight - 1 /\ loads' = loads

(* C15: every sampler tick prepends exactly one log, with a thumbnail and   *)
(* with isCameraOn equal to the camera flag at the moment the tick sampled  *)
(* its frame; when the classification call failed the log carries the       *)
(* low-risk fall-back.                                                      *)
C15_OneLogPerTickWithCameraFlag ==
  [][(TickSettles /\ fault' # "nullReply") =>
       /\ Len(logs') = Len(logs) + 1
       /\ logs'[1].thumbnail
       /\ logs'[1].isCameraOn = logs'[1].tickCam
       /\ fault' = "classify" =>
            /\ logs'[1].confidence = "low"
            /\ logs'[1].category \in FallbackCategories]_vars

(* C16: while RECORDING, an idle poll prepends one log of type activity if  *)
(* and only if the idle value it computes (more than five minutes since the *)
(* last activity) differs from the idle flag, and the flag then takes that  *)
(* value; a poll that computes the value the flag already has adds nothing. *)
C16_IdlePollLogsOnTransitionOnly ==
  [][(polls'.n = polls.n + 1) =>
       LET computed == polls'.since > IdleThresholdMs IN
         /\ status = "RECORDING"
         /\ isIdle' = computed
         /\ IF computed # isIdle
            THEN /\ Len(logs') = Len(logs) + 1
                 /\ logs'[1].type = "activity"
                 /\ logs'[1].category = IF computed THEN "Idle" ELSE "Work"
                 /\ \A k \in 1..Len(logs) : logs'[k + 1] = logs[k]
            ELSE logs' = logs]_vars

(* C16 witness: three polls, of which one found nothing to report; the     *)
(* session went idle and came back, and the timeline holds the logs of the  *)
(* two transitions.                                                         *)
C16_Witness ==
  /\ polls.n = MaxPolls /\ status = "RECORDING" /\ ~isIdle
  /\ Len(logs) = 2
  /\ logs[1].category = "Work" /\ logs[2].category = "Idle"

(* C17: whenever status is RECORDING the sampler is scheduled with a period *)
(* of 60 s if isIdle and of 15 s if not; a flip of isIdle while RECORDING   *)
(* therefore leaves the sampler scheduled with the period of the new value. *)
C17_SamplerPeriodFollowsIdle ==
  status = "RECORDING" =>
    /\ analysisIntervalRef
    /\ period = IF isIdle THEN 60000 ELSE 15000

(* C17 witness: recording, idle, the sampler on its 60 s period. *)
C17_Witness ==
  status = "RECORDING" /\ isIdle /\ period = 60000 /\ analysisIntervalRef

(* C18: two write-ahead snapshots of one session leave one metadata entry   *)
(* and one chunk buffer, holding what the second save wrote, and one log    *)
(* record for the session; two putVideo or two putLogs under one session id *)
(* leave one record, holding the second value.                              *)
C18_SecondSaveOverwrites ==
  (Len(saves) = 2 /\ saves[1].op = saves[2].op /\ saves[1].id = saves[2].id) =>
    LET second == saves[2] IN
      /\ second.op = "snapshot" =>
           /\ Len(kv.ls) = 1 /\ RowsOf(kv.ls, MetaKey) = 1
           /\ Get(kv.ls, MetaKey, NoSnapshot) =
                [elapsedTime |-> second.time, logs |-> StripThumbnails(second.logs)]
           /\ Len(kv.chunks) <= 1
           /\ Get(kv.chunks, ChunkKey, <<>>) = second.chunks
           /\ Len(kv.logs) <= 1
           /\ Get(kv.logs, second.id, <<>>) = second.logs
      /\ second.op = "video" =>
           /\ Len(kv.videos) = 1 /\ RowsOf(kv.videos, second.id) = 1
           /\ Get(kv.videos, second.id, <<>>) = second.chunks
      /\ second.op = "logs" =>
           /\ Len(kv.logs) = 1 /\ RowsOf(kv.logs, second.id) = 1
           /\ Get(kv.logs, second.id, <<>>) = second.logs

(* C18 witness: a session was snapshotted twice, with one chunk and then    *)
(* with two; the store holds one buffer, of two chunks.                     *)
C18_Witness ==
  /\ Len(saves) = 2
  /\ saves[1].op = "snapshot" /\ saves[2].op = "snapshot"
  /\ saves[1].id = saves[2].id
  /\ Len(saves[1].chunks) = 1 /\ Len(saves[2].chunks) = 2
  /\ Len(kv.chunks) = 1 /\ Len(kv.chunks[1].value) = 2

(* C19: a change of the background mode during a session leaves status,    *)
(* the active session id, the recorder, the chunk buffer, the elapsed time  *)
(* and the timeline as they were.                                           *)
C19_BgModeChangeKeepsSession ==
  [][(bgMode' # bgMode) =>
       /\ status' = status
       /\ activeSessionId' = activeSessionId
       /\ mediaRecorderRef' = mediaRecorderRef
       /\ chunksRef' = chunksRef
       /\ elapsedTime' = elapsedTime
       /\ logs' = logs]_vars

(* C19 witness: the background was switched off in a session that is still  *)
(* recording, with a chunk in its buffer, a second on its clock and a log   *)
(* on its timeline.                                                         *)
C19_Witness ==
  /\ bgMode = "none" /\ status = "RECORDING"
  /\ mediaRecorderRef.state = "recording"
  /\ chunksRef # <<>> /\ elapsedTime > 0 /\ logs # <<>>

(* C20: when the final video save fails, be it the opening of the database  *)
(* or the write transaction, the finalization goes on with what it holds in *)
(* memory (session id, duration, logs) to clearRecoveryChunks and from      *)
(* there to onSessionComplete and the reset of the time and log state.      *)
C20_CompleteAfterFailedVideoSave ==
  [][(fault' \in VideoFailures) => fin' = [fin EXCEPT !.pc = "clearChunks"]]_vars

(* C21: every operation of the durable store resolves, whether the opening *)
(* of the database or the transaction or request fails; a read that met a   *)
(* failure yields undefined or an empty list.                               *)
C21_DbOperationsNeverReject ==
  /\ dbOut.settled # "rejected"
  /\ (dbOut.settled = "resolved" /\ dbIn.fail # "none" /\ dbIn.op \in DbReads) =>
       dbOut.value = <<>>

(* C22: the final video is assembled only in the step of the recorder's     *)
(* stop event, from the chunk buffer as it is after the chunk flushed by    *)
(* the stop; and from the start of a recorder to its stop event the buffer  *)
(* only grows at its end, so that the video is every chunk emitted, in      *)
(* emission order.                                                          *)
C22_BlobIsAllChunksAfterStopEvent ==
  [][/\ (fin'.pc # "none" /\ fin'.finalChunks # fin.finalChunks) =>
          /\ fin.pc = "flush"
          /\ fin'.finalChunks = chunksRef'
          /\ fin'.pc = "saveVideo" => fin'.blob = chunksRef'
     /\ ((RecorderActive(mediaRecorderRef) \/ fin.pc = "flush") /\ loads' = loads) =>
          IsPrefix(chunksRef, chunksRef')]_vars


(* C23: in the finalization of a stopped session the write-ahead track is   *)
(* cleared (clearRecoveryChunks, followed at once by the removal of the     *)
(* snapshot metadata) only after the video save, when there are chunks, and *)
(* the log save, when there are logs, of that session.                      *)
C23_TrackClearedAfterBothSaves ==
  Occurs(finTrace, "clearChunks") /\ completed.last.via # "none" =>
    /\ completed.last.finalChunks # <<>> =>
         Before(finTrace, "putVideo", "clearChunks")
    /\ completed.last.logs # <<>> => Before(finTrace, "putLogs", "clearChunks")


(* C24: after handleResumeSession, until the user's next operation, the     *)
(* status is PAUSED and elapsed time, logs and chunk buffer are those of    *)
(* the snapshot and of the stored recovery chunks; and when the user then   *)
(* calls resumeMonitoring and stopMonitoring, the duration reported is the  *)
(* restored elapsed time plus the seconds recorded since, and the final     *)
(* video is the recovered chunks followed by the chunks of the new          *)
(* recorder (the payload is that of the recorder the resume started).       *)
C24_RecoveredSessionContinues ==
  /\ resumed.phase = "paused" =>
       /\ status = "PAUSED"
       /\ elapsedTime = resumed.time
       /\ logs = resumed.logs
       /\ chunksRef = resumed.chunks
  /\ (resumed.phase = "stopped" /\ completed.last.via = "user"
        /\ completed.last.rec = recGen) =>
       /\ completed.last.duration =
            resumed.time + (completed.last.recTicks - resumed.recTicks)
       /\ IsPrefix(resumed.chunks, completed.last.finalChunks)
       /\ completed.last.video = completed.last.finalChunks
       /\ \A i \in 1..Len(completed.last.finalChunks) :
            i > Len(resumed.chunks) => completed.last.finalChunks[i][1] = recGen

(* C24 witness: a snapshot taken after one second, with one chunk, was      *)
(* resumed; one more second was recorded and the stop reported two seconds  *)
(* and a video of the recovered chunk and a new one.                        *)
C24_Witness ==
  /\ resumed.phase = "stopped" /\ completed.last.via = "user"
  /\ completed.last.rec = recGen
  /\ resumed.time = 1 /\ completed.last.duration = 2
  /\ Len(resumed.chunks) = 1 /\ Len(completed.last.finalChunks) = 2

(* C25: stopMonitoring clears every periodic task (the loops of loopsRef,   *)
(* the ticker, the sampler) before it stops a media track.                  *)
C25_TasksClearedBeforeTracks ==
  \A t \in {"loops", "ticker", "sampler"} :
    (Occurs(stopTrace, t) /\ Occurs(stopTrace, "tracks")) =>
      Before(stopTrace, t, "tracks")


(* C26: at most one sampler interval is scheduled, and one is scheduled     *)
(* only while status is RECORDING, so that pauseMonitoring and              *)
(* stopMonitoring leave none; no sampling tick begins unless status is      *)
(* RECORDING; and pauseMonitoring changes the state of no stream.           *)
C26_OneSamplerOnlyWhileRecording ==
  /\ [](/\ samplers <= 1
        /\ samplers > 0 => status = "RECORDING"
        /\ analysisIntervalRef <=> samplers = 1)
  /\ [][/\ inflight' > inflight => status = "RECORDING"
        /\ (status = "RECORDING" /\ status' = "PAUSED") => streams' = streams]_vars

(* C26 witness: the sampler was restarted for the idle period and the       *)
(* session was then paused: no sampler is scheduled, the streams are live.  *)
C26_Witness ==
  /\ status = "PAUSED" /\ isIdle /\ samplers = 0
  /\ \A s \in StreamNames : streams[s] = "live"


(* C27: in the step in which a stopMonitoring finishes (the handler itself  *)
(* when no recorder is active, the end of the recorder's stop handler       *)
(* otherwise), and in the step of handleDiscardSession, the snapshot        *)
(* metadata and the recovery chunks are both gone from storage.             *)
C27_StopAndDiscardLeaveNoTrack ==
  [][(\/ stops' > stops /\ fin'.pc = "none"
      \/ fin.pc = "clearChunks" /\ fin'.pc = "none" /\ loads' = loads
      \/ showRecovery /\ ~showRecovery' /\ status' = "IDLE")
       => (~meta'.present /\ recChunks' = <<>>)]_vars


(* C28: once a stopMonitoring has finished (status IDLE, its finalization   *)
(* over) and until the next startMonitoring, the elapsed time is 0 and the  *)
(* log timeline is empty, whatever sampling tick was in flight at the stop. *)
C28_ResetHoldsUntilNextStart ==
  (stops > 0 /\ status = "IDLE" /\ fin.pc = "none" /\ startPc.pc = "none") =>
    (elapsedTime = 0 /\ logs = <<>>)


(* C29: the steps of a startMonitoring that resumeMonitoring fell back to   *)
(* (status PAUSED: its entry, and the settling of getUserMedia and of       *)
(* getDisplayMedia) change neither the elapsed time nor the logs and keep   *)
(* the chunks already in the buffer at its front; and the final video that  *)
(* the stop event of the recorder it made assembles is the chunks the       *)
(* fall-back found in the buffer followed by chunks of that recorder.       *)
C29_FallbackStartKeepsSession ==
  [][/\ (status = "PAUSED" /\ startPc'.pc # startPc.pc /\ loads' = loads) =>
          /\ elapsedTime' = elapsedTime
          /\ logs' = logs
          /\ IsPrefix(chunksRef, chunksRef')
     /\ (fin.pc = "flush" /\ fin'.pc # "flush" /\ loads' = loads
           /\ fin.rec # 0 /\ resumed.rec = fin.rec) =>
          /\ IsPrefix(resumed.kept, fin'.finalChunks)
          /\ \A i \in 1..Len(fin'.finalChunks) :
               i > Len(resumed.kept) => fin'.finalChunks[i][1] = fin.rec]_vars

(* C29 witness: a session stopped after a fall-back start reported a video  *)
(* of the chunk buffered before the fall-back and a chunk of the new        *)
(* recorder, with the log it had before.                                    *)
C29_Witness ==
  /\ completed.last.via = "user" /\ completed.last.rec = resumed.rec
  /\ resumed.kept = <<<<1, 1>>>>
  /\ completed.last.finalChunks = <<<<1, 1>>, <<2, 0>>>>
  /\ completed.last.video = completed.last.finalChunks
  /\ Len(completed.last.logs) = 1


(* C30: when close() runs on the segmentation instance no segmentation.send *)
(* is pending: every send that was in flight at stopLoops has completed.    *)
C30_ClosedAfterSendsComplete ==
  segm.closedWith = 0

(* C31: every frame the compositor draws holds the camera inset only if the *)
(* camera overlay is enabled at that tick, and holds it whenever the        *)
(* overlay is enabled and the camera video has data: the recording agrees   *)
(* with the isCameraOn that a log written at that moment carries.           *)
C31_InsetFollowsCameraFlag ==
  comp.frame.drawn =>
    /\ comp.frame.inset => comp.frame.cam
    /\ comp.frame.cam /\ comp.frame.ready => comp.frame.inset

(* C32: the log sequence of the session, and the one delivered with the     *)
(* completed session, is in chronological insertion order: timestamps do    *)
(* not decrease from the first entry to the last.                           *)
Chronological(ls) ==
  \A i, j \in 1..Len(ls) : i < j => ls[i].timestamp <= ls[j].timestamp

NewestFirst(ls) ==
  \A i, j \in 1..Len(ls) : i < j => ls[i].timestamp >= ls[j].timestamp

C33_LogIdsDistinct ==
  \A i, j \in 1..Len(logs) :
    i < j /\ (logs[i].thumbnail \/ logs[j].thumbnail) => logs[i].id # logs[j].id

(* C34: when screen capture is unsupported or denied and camera and         *)
(* microphone are granted, the start reaches Recording on the placeholder   *)
(* screen stream (the session is recording or paused while that stream is   *)
(* in use), and the placeholder track carries no handler that stops the     *)
(* session when the track ends.                                             *)
C34_PlaceholderHasNoStopHandler ==
  screenTrack.kind = "canvas" =>
    /\ status \in {"RECORDING", "PAUSED"} /\ streams["screen"] = "live"
    /\ ~screenTrack.handler

(* C35: from the stop until the stop handler of the recorder has run to its *)
(* end the state is Uploading; it is Idle only once finalization is over.   *)
C35_UploadingWhileFinalizing ==
  fin.pc # "none" => status = "UPLOADING"

(* C36: whatever the classification service replies, a malformed reply      *)
(* included, the result handed to the sampler has a riskLevel among low,    *)
(* medium and high and a defined summary and category.                      *)
C36_ResultIsWellFormed ==
  analysisOut.settled = "resolved" =>
    /\ analysisOut.value.riskLevel \in RiskLevels
    /\ analysisOut.value.summary \notin {"undefined", "null"}
    /\ analysisOut.value.category \notin {"undefined", "null"}

(* C37: when a start is made from Idle after a stop whose recorder stop     *)
(* event has not been handled yet, the pending finalization builds its      *)
(* video from exactly the chunks of the stopped session (the buffer as the  *)
(* stop left it, then the chunk flushed by the stop, if any), and when it   *)
(* ends it leaves the elapsed time, the logs, the chunk buffer and the      *)
(* recovery metadata of the new session as they are.                        *)
C37_PendingFinalizationKeepsApart ==
  [][/\ (fin.pc = "flush" /\ fin'.pc # "flush" /\ recGen > fin.rec) =>
          /\ IsPrefix(fin.atStop, fin'.finalChunks)
          /\ \A i \in 1..Len(fin'.finalChunks) : fin'.finalChunks[i][1] = fin.rec
     /\ (fin.pc = "clearChunks" /\ fin'.pc = "none" /\ fin.overtaken) =>
          /\ elapsedTime' = elapsedTime /\ logs' = logs
          /\ chunksRef' = chunksRef /\ meta' = meta]_vars

(* C38: when start is invoked again while an earlier start is still         *)
(* awaiting media acquisition (the status still Idle), at most one recorder *)
(* and one set of streams end up active and one recorder only appends to    *)
(* the chunk buffer.                                                        *)
C38_OneStartWins ==
  (\A i \in 1..TwoStarts : starts.pc[i] \in {"none", "done", "failed"}) =>
  /\ Cardinality(starts.recording) <= 1
  /\ Cardinality(starts.streams) <= 1
  /\ Cardinality({starts.chunksRef[k] : k \in 1..Len(starts.chunksRef)}) <= 1

(* C39: over the sessions of one page lifetime the ids passed to            *)
(* onSessionComplete are pairwise distinct, and the finalization of a       *)
(* session writes neither its video nor its logs under the id of a session  *)
(* completed before, whether the session ended by the user's stop or by the *)
(* end of the shared screen.                                                *)
Finalizes == fin.pc \in {"saveVideo", "clearChunks"} /\ fin' # fin

C39_CompletedIdsDistinct ==
  [][/\ completed'.n > completed.n =>
          \A k \in 1..Len(completed.passed) : completed.passed[k] # fin.id
     /\ (Finalizes /\ (dbVideos' # dbVideos \/ dbLogs' # dbLogs)) =>
          \A k \in 1..Len(completed.passed) : completed.passed[k] # fin.id]_vars

=============================================================================
